---------------------------- MODULE Spec2Model ----------------------------
(***************************************************************************)
(* Model of backend/server.py, the test-case generator gateway:            *)
(*   POST /api/generate-test-cases  (create_test_caases, process_request)  *)
(*   GET  /health                   (health_check)                         *)
(*   POST /generate-excel-proxy     (generate_excel_proxy)                 *)
(* All three handlers are coroutines of the one event loop that            *)
(* uvicorn.run starts (server.py:262-264).  Python strings are TLA+        *)
(* strings, byte strings are sequences of 0..255.                          *)
(***************************************************************************)
EXTENDS Integers, Sequences, FiniteSets, TLC

(***************************************************************************)
(* Bounds of the model.                                                    *)
(***************************************************************************)
\* Longest image list of a generation request.
MaxImages == 2
\* Most chunks the upstream completion stream delivers before it ends.
MaxChunks == 2
\* Most fragments an additional_info text is put together from.
MaxInfoParts == 2
\* Requests in flight at once in the concurrent specification.
MaxReq == 2

(***************************************************************************)
(* Python values.                                                          *)
(***************************************************************************)
\* Optional[str]: None, or a string.
None == [isNone |-> TRUE, val |-> ""]
Some(s) == [isNone |-> FALSE, val |-> s]
\* Python truthiness of an Optional[str]: None and "" are falsy.
Truthy(o) == (~o.isNone) /\ o.val # ""

\* The character of s at position i, as a one-character string.
CharAt(s, i) == SubSeq(s, i, i)

\* sub in s
Contains(s, sub) ==
    \E i \in 1..(Len(s) - Len(sub) + 1) : SubSeq(s, i, i + Len(sub) - 1) = sub

UpperLetters == "ABCDEFGHIJKLMNOPQRSTUVWXYZ"
LowerLetters == "abcdefghijklmnopqrstuvwxyz"

\* str.lower() on one character.
LowerChar(c) ==
    IF \E i \in 1..26 : CharAt(UpperLetters, i) = c
    THEN CharAt(LowerLetters, CHOOSE i \in 1..26 : CharAt(UpperLetters, i) = c)
    ELSE c

\* str.lower()
RECURSIVE lower(_)
lower(s) ==
    IF Len(s) = 0 THEN "" ELSE LowerChar(CharAt(s, 1)) \o lower(SubSeq(s, 2, Len(s)))

\* s.split('.')[-1]: what follows the last dot, the whole of s if it has none.
LastDot(s) ==
    IF \E i \in 1..Len(s) : CharAt(s, i) = "."
    THEN CHOOSE i \in 1..Len(s) :
            /\ CharAt(s, i) = "."
            /\ \A j \in (i + 1)..Len(s) : CharAt(s, j) # "."
    ELSE 0
SplitDotLast(s) == SubSeq(s, LastDot(s) + 1, Len(s))

(***************************************************************************)
(* base64.b64encode(contents).decode("utf-8")                              *)
(***************************************************************************)
B64Alphabet == "ABCDEFGHIJKLMNOPQRSTUVWXYZabcdefghijklmnopqrstuvwxyz0123456789+/"
B64Char(n) == CharAt(B64Alphabet, n + 1)

RECURSIVE b64encode(_)
b64encode(b) ==
    IF Len(b) = 0 THEN ""
    ELSE IF Len(b) = 1 THEN
        B64Char(b[1] \div 4) \o B64Char((b[1] % 4) * 16) \o "=="
    ELSE IF Len(b) = 2 THEN
        B64Char(b[1] \div 4) \o B64Char((b[1] % 4) * 16 + b[2] \div 16)
            \o B64Char((b[2] % 16) * 4) \o "="
    ELSE
        B64Char(b[1] \div 4) \o B64Char((b[1] % 4) * 16 + b[2] \div 16)
            \o B64Char((b[2] % 16) * 4 + b[3] \div 64) \o B64Char(b[3] % 64)
            \o b64encode(SubSeq(b, 4, Len(b)))

(***************************************************************************)
(* Prompt construction.                                                    *)
(***************************************************************************)
GherkinTemplate ==
    "\n"
    \o "    You are a test automation specialist. Create Gherkin feature file test cases based on the images provided.\n"
    \o "    The test cases should follow the Given-When-Then format and be comprehensive.\n"
    \o "    \n"
    \o "    Requirements:\n"
    \o "    - Create a Feature description\n"
    \o "    - Generate at least 3-5 Scenarios\n"
    \o "    - Each Scenario should have clear Given, When, Then steps\n"
    \o "    - Use appropriate tags where necessary\n"
    \o "    - Include parameters and examples where appropriate\n"
    \o "    - Format the output as a valid .feature file\n"
    \o "    "

TraditionalTemplate ==
    "\n"
    \o "    You are a test automation specialist. Create traditional test cases in a tabular format based on the images provided.\n"
    \o "    \n"
    \o "    Requirements:\n"
    \o "    - Present test cases in a structured format with these sections for each test case:\n"
    \o "      - Test Case ID (e.g., TC001)\n"
    \o "      - Description: Brief description of what the test case verifies\n"
    \o "      - Preconditions: What must be true before executing the test\n"
    \o "      - Steps: Numbered list of actions to perform\n"
    \o "      - Expected Results: What should happen when steps are executed\n"
    \o "      - Priority: High, Medium, or Low importance\n"
    \o "    - Generate at least 5-7 comprehensive test cases\n"
    \o "    - Include test cases for different scenarios including edge cases\n"
    \o "    - Assign appropriate priority to each test case\n"
    \o "    "

AdditionalInfoSuffix(additional_info) ==
    "\n\nAdditional information about the test requirements: " \o additional_info.val

\* The gherkin prompt with the traditional template's text in it.
get_gherkin_prompt_swapped(additional_info) ==
    IF Truthy(additional_info)
    THEN TraditionalTemplate \o AdditionalInfoSuffix(additional_info)
    ELSE TraditionalTemplate

get_gherkin_prompt(additional_info) ==
    IF Truthy(additional_info)
    THEN GherkinTemplate \o AdditionalInfoSuffix(additional_info)
    ELSE GherkinTemplate

get_traditional_prompt(additional_info) ==
    IF Truthy(additional_info)
    THEN TraditionalTemplate \o AdditionalInfoSuffix(additional_info)
    ELSE TraditionalTemplate

LanguageMode == {"gherkin", "traditional"}

\* process_request's choice of the prompt.
select_prompt(language_mode, additional_info) ==
    IF language_mode = "gherkin"
    THEN get_gherkin_prompt(additional_info)
    ELSE get_traditional_prompt(additional_info)


(***************************************************************************)
(* Inputs: uploads, requests, upstream answers.                            *)
(***************************************************************************)
\* An UploadFile: its filename (None when the part carries none), its
\* bytes, and the messages of the exceptions file.read() and file.seek(0)
\* raise ("" when the call succeeds).
Upload(filename, contents, read_error, seek_error) ==
    [filename |-> filename, contents |-> contents, read_error |-> read_error,
     seek_error |-> seek_error]

ImageFiles ==
    { Upload(Some("login.jpg"), <<255>>, "", ""),
      Upload(Some("Home.Screen.PNG"), <<80, 78>>, "", ""),
      Upload(Some("README"), <<0, 16, 131>>, "", ""),
      Upload(Some("broken.png"), <<>>, "I/O operation on closed file", ""),
      Upload(Some("a.png"), <<1>>, "", "seek of closed file"),
      Upload(None, <<71>>, "", "") }

SeqUpTo(S, n) == UNION { [1..k -> S] : k \in 0..n }

GenerateRequest(images, language_mode, additional_info) ==
    [kind |-> "generate", images |-> images, language_mode |-> language_mode,
     additional_info |-> additional_info, content |-> ""]
HealthRequest ==
    [kind |-> "health", images |-> <<>>, language_mode |-> "gherkin",
     additional_info |-> None, content |-> ""]
ExcelRequest(content) ==
    [kind |-> "excel", images |-> <<>>, language_mode |-> "gherkin",
     additional_info |-> None, content |-> content]
NoRequest ==
    [kind |-> "none", images |-> <<>>, language_mode |-> "gherkin",
     additional_info |-> None, content |-> ""]

\* The requests of the sequential specification.
FullRequests ==
    { GenerateRequest(images, language_mode, additional_info) :
        images \in SeqUpTo(ImageFiles, MaxImages),
        language_mode \in LanguageMode,
        additional_info \in {None, Some("focus on the login form")} }
    \cup {HealthRequest, ExcelRequest("TC001 | Login")}

\* The requests of the concurrent specification.
SmallRequests ==
    { GenerateRequest(<<Upload(Some("login.jpg"), <<255>>, "", "")>>, "gherkin", None),
      HealthRequest, ExcelRequest("TC001 | Login") }

\* A ChatCompletionChunk, as far as line 193 looks at it: its choices, each
\* a delta whose content is None or a string.
Choice(content) == [delta |-> [content |-> content]]
Chunk(choices) == [choices |-> choices]

ChunkShapes ==
    { Chunk(<<>>),
      Chunk(<<Choice(None)>>),
      Chunk(<<Choice(Some(""))>>),
      Chunk(<<Choice(Some("Feature: Login"))>>),
      Chunk(<<Choice(Some("[DONE]"))>>),
      Chunk(<<Choice(Some("Given a user")), Choice(Some("When")) >>) }

SmallChunks == { Chunk(<<Choice(Some("Feature: Login"))>>) }

\* str(e) of the exceptions the upstream completion call raises.
UpstreamErrors == {"Connection error."}

\* What requests.post comes back with: a transport exception, or a response
\* with a status code.
ExcelAnswer(transport_error, status_code) ==
    [transport_error |-> transport_error, status_code |-> status_code]
NoAnswer == ExcelAnswer(FALSE, 0)
ExcelAnswers ==
    {ExcelAnswer(TRUE, 0)} \cup {ExcelAnswer(FALSE, s) : s \in {200, 400, 404, 500, 503}}

(***************************************************************************)
(* State.                                                                  *)
(***************************************************************************)
Req == 1..MaxReq

VARIABLES
    req,            \* req[r]: the request r carries (NoRequest before it arrives)
    pc,             \* pc[r]: where the handling of r stands
    loop,           \* the request whose blocking call holds the event loop, 0 if none
    status,         \* status[r]: the HTTP status sent to the client, 0 before any
    detail,         \* detail[r]: the JSON detail of an error response
    raised,         \* raised[r]: the exception that escaped after the response started
    reads,          \* reads[r]: uploads whose file.read() has come back
    seeks,          \* seeks[r]: uploads whose file.seek(0) has come back
    base64_image,   \* base64_image[r]: the encoding of the upload being seeked
    image_contents, \* image_contents[r]: process_request's list of descriptors
    messages,       \* messages[r]: the messages of the completion call
    calls,          \* calls[r]: completion calls made upstream
    received,       \* received[r]: the chunks the upstream stream delivered
    error,          \* error[r]: str(e) of the exception the completion call raised
    frames,         \* frames[r]: the frames the generator yielded
    answer,         \* answer[r]: what the Excel service answered
    promptCall      \* one call of the prompt selection: its arguments and result

vars == <<req, pc, loop, status, detail, raised, reads, seeks, base64_image, image_contents, messages,
          calls, received, error, frames, answer, promptCall>>

HTTPException(status_code, d) == [raised |-> TRUE, status_code |-> status_code, detail |-> d]
NoException == [raised |-> FALSE, status_code |-> 0, detail |-> ""]

IdlePromptCall ==
    [language_mode |-> "gherkin", additional_info |-> None,
     prompt_content |-> "", returned |-> FALSE]

\* No request has arrived.
ServerIdle ==
    /\ req = [r \in Req |-> NoRequest]
    /\ pc = [r \in Req |-> "idle"]
    /\ loop = 0
    /\ status = [r \in Req |-> 0]
    /\ detail = [r \in Req |-> ""]
    /\ raised = [r \in Req |-> NoException]
    /\ reads = [r \in Req |-> 0]
    /\ seeks = [r \in Req |-> 0]
    /\ base64_image = [r \in Req |-> ""]
    /\ image_contents = [r \in Req |-> <<>>]
    /\ messages = [r \in Req |-> <<>>]
    /\ calls = [r \in Req |-> 0]
    /\ received = [r \in Req |-> <<>>]
    /\ error = [r \in Req |-> None]
    /\ frames = [r \in Req |-> <<>>]
    /\ answer = [r \in Req |-> NoAnswer]

Init == ServerIdle /\ promptCall = IdlePromptCall

(***************************************************************************)
(* Image ingestion: one iteration of process_request's loop over images.   *)
(***************************************************************************)
\* What lines 154-156 raise for an exception e of the try block.
ImageFailure(e) == HTTPException(400, "Error processing image: " \o e)

\* encode_image_to_base64, lines 122-123, once file.read() has come back:
\* the exception if it raised, else the encoding, with which the coroutine
\* goes on to await file.seek(0).  The except clause skips the file here
\* instead of raising.
ReadStepSkipping(image) ==
    IF image.read_error # ""
    THEN [pc |-> "encoding", exc |-> NoException, base64_encoded |-> ""]
    ELSE [pc |-> "seeking", exc |-> NoException,
          base64_encoded |-> b64encode(image.contents)]

\* encode_image_to_base64, lines 122-123, once file.read() has come back:
\* the exception if it raised, else the encoding, with which the coroutine
\* goes on to await file.seek(0).
ReadStep(image) ==
    IF image.read_error # ""
    THEN [pc |-> "aborted", exc |-> ImageFailure(image.read_error), base64_encoded |-> ""]
    ELSE [pc |-> "seeking", exc |-> NoException,
          base64_encoded |-> b64encode(image.contents)]

\* The descriptor of lines 143-153.
ImageDescriptor(image, base64_encoded) ==
    LET file_ext == lower(SplitDotLast(image.filename.val))
    IN [type |-> "image_url",
        image_url |-> [url |-> "data:image/" \o file_ext \o ";base64," \o base64_encoded]]

\* The rest of the loop body, with the descriptor put at the front of the list.
SeekStepPrepending(contents, image, base64_encoded) ==
    IF image.seek_error # ""
    THEN [pc |-> "aborted", exc |-> ImageFailure(image.seek_error), image_contents |-> contents]
    ELSE IF image.filename.isNone
    THEN [pc |-> "aborted", image_contents |-> contents,
          exc |-> ImageFailure("'NoneType' object has no attribute 'split'")]
    ELSE [pc |-> "encoding", exc |-> NoException,
          image_contents |-> <<ImageDescriptor(image, base64_encoded)>> \o contents]

\* The rest of the loop body, lines 124-125 and 143-156, once file.seek(0)
\* has come back: the exception the seek raised, or the one .split raises
\* on a filename that is None, else the list with the descriptor appended.
SeekStep(contents, image, base64_encoded) ==
    IF image.seek_error # ""
    THEN [pc |-> "aborted", exc |-> ImageFailure(image.seek_error), image_contents |-> contents]
    ELSE IF image.filename.isNone
    THEN [pc |-> "aborted", image_contents |-> contents,
          exc |-> ImageFailure("'NoneType' object has no attribute 'split'")]
    ELSE [pc |-> "encoding", exc |-> NoException,
          image_contents |-> Append(contents, ImageDescriptor(image, base64_encoded))]

\* messages, as lines 165-179 build it.
BuildMessages(prompt_content, contents) ==
    << [role |-> "user",
        content |-> <<[type |-> "text", text |-> prompt_content]>> \o contents] >>

(***************************************************************************)
(* Streaming relay.                                                        *)
(***************************************************************************)
Frame(text) == "data: " \o text \o "\n\n"
DoneFrame == "data: [DONE]\n\n"
ErrorFrame(e) == "data: Error: " \o e \o "\n\n"

\* The frames one chunk makes the loop yield, with the test on content left out.
relay_chunk_unfiltered(chunk) ==
    IF chunk.choices # <<>>
    THEN <<Frame(chunk.choices[1].delta.content.val)>>
    ELSE <<>>

\* The frames one chunk makes the loop at lines 192-196 yield.
relay_chunk(chunk) ==
    IF chunk.choices # <<>> /\ Truthy(chunk.choices[1].delta.content)
    THEN <<Frame(chunk.choices[1].delta.content.val)>>
    ELSE <<>>

\* The except clause with the terminal frame forgotten.
error_tail_without_done == <<>>

\* What the except clause yields after the error frame.
error_tail == <<DoneFrame>>

(***************************************************************************)
(* Excel proxy.                                                            *)
(***************************************************************************)
\* The try block of generate_excel_proxy, given what requests.post did.
excel_try(a) ==
    IF a.transport_error THEN [raised |-> TRUE, status_code |-> 0, detail |-> "transport"]
    ELSE IF a.status_code # 200
         THEN HTTPException(a.status_code, "Failed to generate Excel")
         ELSE [raised |-> FALSE, status_code |-> 200, detail |-> ""]

\* The except clause: every Exception of the try block, the HTTPException
\* of line 249 among them, is replaced by a 500.
excel_except(result) ==
    IF result.raised
    THEN HTTPException(500, "Failed to generate Excel file")
    ELSE result

(***************************************************************************)
(* Actions.  A step of a handler runs only while no blocking call holds    *)
(* the event loop; a blocking call holds it until the upstream answers.    *)
(***************************************************************************)
Set(f, r, v) == [f EXCEPT ![r] = v]

\* A client sends request q on connection r.
Arrive(r, q) ==
    /\ pc[r] = "idle"
    /\ req' = Set(req, r, q)
    /\ pc' = Set(pc, r, "received")
    /\ UNCHANGED <<loop, status, detail, raised, reads, seeks, base64_image, image_contents, messages,
                   calls, received, error, frames, answer, promptCall>>

\* The validation of line 222, never rejecting.
NoImagesNever(images) == FALSE

\* "not images"
NoImages(images) == Len(images) = 0

\* create_test_caases: reject an empty image list, else start the
\* StreamingResponse, which sends the 200 status line and then runs the
\* generator process_request.
create_test_caases(r) ==
    /\ pc[r] = "received" /\ req[r].kind = "generate" /\ loop = 0
    /\ IF NoImages(req[r].images)
       THEN /\ status' = Set(status, r, 400)
            /\ detail' = Set(detail, r, "At least one image is required")
            /\ pc' = Set(pc, r, "done")
       ELSE /\ status' = Set(status, r, 200)
            /\ detail' = detail
            /\ pc' = Set(pc, r, "encoding")
    /\ UNCHANGED <<req, loop, raised, reads, seeks, base64_image, image_contents, messages, calls,
                   received, error, frames, answer, promptCall>>

\* process_request, lines 139-141, and encode_image_to_base64, lines
\* 122-123: the await of file.read() for the next image comes back and the
\* coroutine runs on to the await of file.seek(0).  (The test of line 134
\* never fires: the module refuses to load without the key, lines 51-52.)
\* An exception raised here leaves the generator after the response has
\* started: the status stays what was sent and the body ends where it is.
read_upload(r) ==
    /\ pc[r] = "encoding" /\ loop = 0
    /\ reads[r] < Len(req[r].images)
    /\ LET step == ReadStep(req[r].images[reads[r] + 1])
       IN /\ reads' = Set(reads, r, reads[r] + 1)
          /\ base64_image' = Set(base64_image, r, step.base64_encoded)
          /\ raised' = Set(raised, r, step.exc)
          /\ pc' = Set(pc, r, step.pc)
    /\ UNCHANGED <<req, loop, status, detail, seeks, image_contents, messages, calls,
                   received, error, frames, answer, promptCall>>

\* encode_image_to_base64, lines 124-125, and process_request, lines
\* 143-156: the await of file.seek(0) comes back and the loop body runs to
\* its end.  Between read_upload and this step the event loop is free.
seek_upload(r) ==
    /\ pc[r] = "seeking" /\ loop = 0
    /\ LET step == SeekStep(image_contents[r], req[r].images[reads[r]], base64_image[r])
       IN /\ seeks' = Set(seeks, r, seeks[r] + 1)
          /\ image_contents' = Set(image_contents, r, step.image_contents)
          /\ raised' = Set(raised, r, step.exc)
          /\ pc' = Set(pc, r, step.pc)
    /\ UNCHANGED <<req, loop, status, detail, reads, base64_image, messages, calls,
                   received, error, frames, answer, promptCall>>

\* process_request, lines 158-189: build the message and enter
\* client.chat.completions.create, a blocking call.
call_completion(r) ==
    /\ pc[r] = "encoding" /\ loop = 0
    /\ reads[r] = Len(req[r].images)
    /\ messages' = Set(messages, r,
            BuildMessages(select_prompt(req[r].language_mode, req[r].additional_info),
                          image_contents[r]))
    /\ calls' = Set(calls, r, calls[r] + 1)
    /\ loop' = r
    /\ pc' = Set(pc, r, "creating")
    /\ UNCHANGED <<req, status, detail, raised, reads, seeks, base64_image, image_contents, received,
                   error, frames, answer, promptCall>>

\* The upstream answers the call: create returns the stream, and the loop
\* of line 192 blocks waiting for its first chunk.
CompletionOpens(r) ==
    /\ pc[r] = "creating" /\ loop = r
    /\ pc' = Set(pc, r, "iterating")
    /\ UNCHANGED <<req, loop, status, detail, raised, reads, seeks, base64_image, image_contents,
                   messages, calls, received, error, frames, answer, promptCall>>

\* The upstream delivers a chunk: lines 193-196.  A yield hands the frame
\* to the response and gives the event loop back.
ChunkArrives(r, chunk) ==
    /\ pc[r] = "iterating" /\ loop = r
    /\ Len(received[r]) < MaxChunks
    /\ received' = Set(received, r, Append(received[r], chunk))
    /\ frames' = Set(frames, r, frames[r] \o relay_chunk(chunk))
    /\ IF relay_chunk(chunk) # <<>>
       THEN loop' = 0 /\ pc' = Set(pc, r, "yielded")
       ELSE loop' = loop /\ pc' = pc
    /\ UNCHANGED <<req, status, detail, raised, reads, seeks, base64_image, image_contents, messages,
                   calls, error, answer, promptCall>>

\* The generator is resumed after a yielded frame was sent, and blocks on
\* the next chunk.
resume_iteration(r) ==
    /\ pc[r] = "yielded" /\ loop = 0
    /\ loop' = r
    /\ pc' = Set(pc, r, "iterating")
    /\ UNCHANGED <<req, status, detail, raised, reads, seeks, base64_image, image_contents, messages,
                   calls, received, error, frames, answer, promptCall>>

\* The upstream stream ends: line 198.
StreamEnds(r) ==
    /\ pc[r] = "iterating" /\ loop = r
    /\ frames' = Set(frames, r, Append(frames[r], DoneFrame))
    /\ loop' = 0
    /\ pc' = Set(pc, r, "done")
    /\ UNCHANGED <<req, status, detail, raised, reads, seeks, base64_image, image_contents, messages,
                   calls, received, error, answer, promptCall>>

\* create, or the iteration, raises: lines 199-202.
CompletionRaises(r, e) ==
    /\ pc[r] \in {"creating", "iterating"} /\ loop = r
    /\ error' = Set(error, r, Some(e))
    /\ frames' = Set(frames, r, Append(frames[r], ErrorFrame(e)))
    /\ loop' = 0
    /\ pc' = Set(pc, r, "error_sent")
    /\ UNCHANGED <<req, status, detail, raised, reads, seeks, base64_image, image_contents, messages,
                   calls, received, answer, promptCall>>

\* The generator is resumed after the error frame: line 203.
after_error(r) ==
    /\ pc[r] = "error_sent" /\ loop = 0
    /\ frames' = Set(frames, r, frames[r] \o error_tail)
    /\ pc' = Set(pc, r, "done")
    /\ UNCHANGED <<req, loop, status, detail, raised, reads, seeks, base64_image, image_contents,
                   messages, calls, received, error, answer, promptCall>>

\* health_check
health_check(r) ==
    /\ pc[r] = "received" /\ req[r].kind = "health" /\ loop = 0
    /\ status' = Set(status, r, 200)
    /\ pc' = Set(pc, r, "done")
    /\ UNCHANGED <<req, loop, detail, raised, reads, seeks, base64_image, image_contents, messages,
                   calls, received, error, frames, answer, promptCall>>

\* generate_excel_proxy enters requests.post, a blocking call.
generate_excel_proxy(r) ==
    /\ pc[r] = "received" /\ req[r].kind = "excel" /\ loop = 0
    /\ loop' = r
    /\ pc' = Set(pc, r, "posting")
    /\ UNCHANGED <<req, status, detail, raised, reads, seeks, base64_image, image_contents, messages,
                   calls, received, error, frames, answer, promptCall>>

\* requests.post comes back: lines 248-260.
ExcelAnswered(r, a) ==
    /\ pc[r] = "posting" /\ loop = r
    /\ answer' = Set(answer, r, a)
    /\ LET result == excel_except(excel_try(a))
       IN /\ status' = Set(status, r, result.status_code)
          /\ detail' = Set(detail, r, result.detail)
    /\ loop' = 0
    /\ pc' = Set(pc, r, "done")
    /\ UNCHANGED <<req, raised, reads, seeks, base64_image, image_contents, messages, calls, received,
                   error, frames, promptCall>>

\* The steps the server takes by itself.
ServerStep(r) ==
    \/ create_test_caases(r)
    \/ read_upload(r)
    \/ seek_upload(r)
    \/ call_completion(r)
    \/ resume_iteration(r)
    \/ after_error(r)
    \/ health_check(r)
    \/ generate_excel_proxy(r)

\* The steps of the clients and the upstream services.
EnvironmentStep(r, Requests, Chunks) ==
    \/ \E q \in Requests : Arrive(r, q)
    \/ CompletionOpens(r)
    \/ \E chunk \in Chunks : ChunkArrives(r, chunk)
    \/ StreamEnds(r)
    \/ \E e \in UpstreamErrors : CompletionRaises(r, e)
    \/ \E a \in ExcelAnswers : ExcelAnswered(r, a)

\* One request at a time, with every input.
Next == ServerStep(1) \/ EnvironmentStep(1, FullRequests, ChunkShapes)

Spec == Init /\ [][Next]_vars

\* Concurrent requests on the one event loop.  The server's own steps are
\* taken when they can be; clients and upstream services owe nothing.
FairNext == \E r \in Req : ServerStep(r) \/ EnvironmentStep(r, SmallRequests, SmallChunks)

FairSpec == Init /\ [][FairNext]_vars /\ \A r \in Req : WF_vars(ServerStep(r))

(***************************************************************************)
(* The prompt selection alone, over every mode and additional_info.        *)
(***************************************************************************)
InfoParts == {"Feature", "Test Case ID", "Test Case", " ID", "feature", "login form"}

RECURSIVE InfoTexts(_)
InfoTexts(n) ==
    IF n = 0 THEN {""}
    ELSE InfoTexts(n - 1) \cup { t \o part : t \in InfoTexts(n - 1), part \in InfoParts }

\* additional_info: absent, empty, or a text.
InfoValues == {None} \cup { Some(t) : t \in InfoTexts(MaxInfoParts) }

PromptInit ==
    /\ ServerIdle
    /\ promptCall \in
         { [language_mode |-> language_mode, additional_info |-> additional_info,
            prompt_content |-> "", returned |-> FALSE] :
              language_mode \in LanguageMode, additional_info \in InfoValues }

\* process_request, lines 158-162.
SelectPrompt ==
    /\ ~promptCall.returned
    /\ promptCall' =
         [promptCall EXCEPT
            !.prompt_content = select_prompt(promptCall.language_mode,
                                             promptCall.additional_info),
            !.returned = TRUE]
    /\ UNCHANGED <<req, pc, loop, status, detail, raised, reads, seeks, base64_image, image_contents,
                   messages, calls, received, error, frames, answer>>

PromptNext == SelectPrompt

PromptSpec == PromptInit /\ [][PromptNext]_vars

(***************************************************************************)
(* Properties.                                                             *)
(***************************************************************************)
IsGenerate(r) == req[r].kind = "generate"

\* The text frames the relay owes for the chunks received: one per chunk
\* whose first choice carries a non-empty text, in arrival order.
RECURSIVE OwedFrames(_)
OwedFrames(chunks) ==
    IF chunks = <<>> THEN <<>>
    ELSE LET c == Head(chunks)
             carries == /\ Len(c.choices) >= 1
                        /\ ~c.choices[1].delta.content.isNone
                        /\ c.choices[1].delta.content.val # ""
         IN (IF carries
             THEN << "data: " \o c.choices[1].delta.content.val \o "\n\n" >>
             ELSE <<>>) \o OwedFrames(Tail(chunks))

\* An upload the loop of process_request cannot get through.
BadImage(image) ==
    image.read_error # "" \/ image.seek_error # "" \/ image.filename.isNone

\* C1: every generation stream that was started and has ended, by success
\* or by failure, holds exactly one terminal frame, and it is the last frame.
C1_StreamEndsWithOneDone ==
    \A r \in Req :
        (IsGenerate(r) /\ status[r] = 200 /\ pc[r] \in {"done", "aborted"})
        => /\ Len(frames[r]) >= 1
           /\ frames[r][Len(frames[r])] = "data: [DONE]\n\n"
           /\ Cardinality({ i \in 1..Len(frames[r]) : frames[r][i] = "data: [DONE]\n\n" }) = 1

\* C2: when the Excel service answers with a status other than 200, the
\* client receives an error with that status.
C2_ProxyPassesUpstreamStatus ==
    \A r \in Req :
        (req[r].kind = "excel" /\ pc[r] = "done"
            /\ ~answer[r].transport_error /\ answer[r].status_code # 200)
        => status[r] = answer[r].status_code

\* C3: a failure reading or encoding an upload reaches the client as a 4xx
\* status with a detail naming the failing file, and processing stops at
\* that file.
C3_ImageFailureIsClientError ==
    \A r \in Req :
        (IsGenerate(r) /\ pc[r] = "aborted")
        => /\ status[r] \in 400..499
           /\ LET failing == req[r].images[reads[r]]
              IN failing.filename.isNone \/ Contains(detail[r], failing.filename.val)
           /\ \A k \in 1..(reads[r] - 1) : ~BadImage(req[r].images[k])

\* C4: a request with an upload that cannot be processed makes no upstream
\* completion call and emits no relayed frame; a call is made only once
\* every image has been encoded.
C4_BadImageAbortsBeforeUpstream ==
    \A r \in Req :
        IsGenerate(r) =>
            /\ (\E k \in 1..Len(req[r].images) : BadImage(req[r].images[k]))
                => calls[r] = 0 /\ received[r] = <<>> /\ frames[r] = <<>>
            /\ calls[r] > 0 => Len(image_contents[r]) = Len(req[r].images)

\* A request was aborted at its second image, the first one encoded.
C4_Witness ==
    \E r \in Req :
        /\ IsGenerate(r) /\ pc[r] = "aborted"
        /\ reads[r] = 2 /\ Len(image_contents[r]) = 1

\* C5: a generation request with no image is answered with a 4xx status,
\* and for it no upload is read and no upstream call is made.
C5_NoImagesRejected ==
    \A r \in Req :
        (IsGenerate(r) /\ req[r].images = <<>> /\ pc[r] # "received")
        => /\ pc[r] = "done"
           /\ status[r] \in 400..499
           /\ reads[r] = 0 /\ seeks[r] = 0 /\ calls[r] = 0
           /\ messages[r] = <<>> /\ frames[r] = <<>>

\* A request without images has been answered.
C5_Witness ==
    \E r \in Req : IsGenerate(r) /\ req[r].images = <<>> /\ pc[r] = "done"

\* C6: the frames emitted so far start with exactly the frames owed for
\* the chunks received so far, one per chunk with non-empty text, in
\* arrival order; what follows them is only the error and terminal frames.
C6_RelayInArrivalOrder ==
    \A r \in Req :
        IsGenerate(r) =>
            LET owed == OwedFrames(received[r])
                n == Len(owed)
            IN /\ Len(frames[r]) >= n
               /\ SubSeq(frames[r], 1, n) = owed
               /\ n <= Len(received[r])
               /\ pc[r] \in {"iterating", "yielded"} => Len(frames[r]) = n
               /\ Len(frames[r]) <= n + 2

\* A chunk without text and a chunk with text have arrived, and one frame
\* has been emitted.
C6_Witness ==
    \E r \in Req :
        /\ pc[r] = "yielded" /\ Len(received[r]) = 2
        /\ received[r][1].choices # <<>> /\ received[r][1].choices[1].delta.content = Some("")
        /\ frames[r] = <<"data: Feature: Login\n\n">>

\* C7: once the completion call or its iteration has raised, the stream is
\* the frames relayed before, then one error frame, then (when the
\* generator has finished) the terminal frame, and nothing else.
C7_ErrorFrameThenDone ==
    \A r \in Req :
        ~error[r].isNone =>
            /\ pc[r] \in {"error_sent", "done"}
            /\ frames[r] =
                 OwedFrames(received[r])
                 \o << "data: Error: " \o error[r].val \o "\n\n" >>
                 \o (IF pc[r] = "done" THEN << "data: [DONE]\n\n" >> ELSE <<>>)

\* The iteration raised after a frame was relayed, and the stream is over.
C7_Witness ==
    \E r \in Req :
        /\ ~error[r].isNone /\ pc[r] = "done"
        /\ Len(received[r]) >= 1 /\ Len(frames[r]) = 3

\* The data URL owed for each upload of the model, from its name and bytes.
OwedUrl(image) ==
    CASE image.filename.val = "login.jpg" -> "data:image/jpg;base64,/w=="
      [] image.filename.val = "Home.Screen.PNG" -> "data:image/png;base64,UE4="
      [] image.filename.val = "README" -> "data:image/readme;base64,ABCD"
      [] OTHER -> "unreadable"

\* C8: the one outgoing user message holds N+1 parts: the text part, then
\* one descriptor per upload in upload order, each with the base64 of its
\* file behind a prefix made of the file's lower-cased raw extension.
C8_MessageContent ==
    \A r \in Req :
        messages[r] # <<>> =>
            LET images == req[r].images
                content == messages[r][1].content
            IN /\ Len(messages[r]) = 1
               /\ messages[r][1].role = "user"
               /\ Len(content) = Len(images) + 1
               /\ content[1].type = "text"
               /\ \A k \in 1..Len(images) :
                    /\ content[k + 1].type = "image_url"
                    /\ content[k + 1].image_url.url = OwedUrl(images[k])

\* A message was built from a .jpg upload followed by another upload.
C8_Witness ==
    \E r \in Req :
        /\ messages[r] # <<>> /\ Len(req[r].images) = 2
        /\ req[r].images[1].filename = Some("login.jpg")
        /\ req[r].images[2].filename = Some("Home.Screen.PNG")

\* C9, as claimed: for every additional_info, the gherkin prompt contains
\* "Feature" and never "Test Case ID", the traditional prompt contains
\* "Test Case ID" and never "Feature".
C9_MarkersExclusive ==
    promptCall.returned =>
        LET p == promptCall.prompt_content
        IN IF promptCall.language_mode = "gherkin"
           THEN Contains(p, "Feature") /\ ~Contains(p, "Test Case ID")
           ELSE Contains(p, "Test Case ID") /\ ~Contains(p, "Feature")

\* C9, amended: the prompt always contains its own template's marker, and
\* contains the other template's marker exactly when additional_info is a
\* non-empty text that contains it.
C9_MarkersFromTemplateOrInfo ==
    promptCall.returned =>
        LET p == promptCall.prompt_content
            info == promptCall.additional_info
            own == IF promptCall.language_mode = "gherkin" THEN "Feature" ELSE "Test Case ID"
            other == IF promptCall.language_mode = "gherkin" THEN "Test Case ID" ELSE "Feature"
        IN /\ Contains(p, own)
           /\ Contains(p, other) <=> ((~info.isNone) /\ Contains(info.val, other))

\* A traditional prompt was built with a text that holds no "Feature".
C9_Witness ==
    /\ promptCall.returned /\ promptCall.language_mode = "traditional"
    /\ promptCall.additional_info = Some("login form")
    /\ ~Contains(promptCall.prompt_content, "Feature")

\* C10: whatever upstream call hangs, a request that has arrived is
\* eventually taken up by its handler.
C10_ArrivedRequestIsServed ==
    \A r \in Req : (pc[r] = "received") ~> (pc[r] # "received")

=============================================================================
